---------------------------- MODULE Spec2Model ----------------------------
(***************************************************************************)
(* MindMate: emotion inference, multimodal fusion, compatibility scoring   *)
(* and session wellness aggregation, together with the conversation route  *)
(* that drives them.                                                       *)
(*                                                                         *)
(* Numbers.  JavaScript numbers are modelled as scaled integers:           *)
(*   - intensities and confidences of an EmotionResult are hundredths      *)
(*     (0.73 is 73), which is what toFixed(2) leaves;                      *)
(*   - numbers of a remote JSON answer are thousandths before toFixed(2);  *)
(*   - match sub-scores are in units of 1/SCALE, totals in thousandths.    *)
(* Rounding is round-half-up on the exact decimal value.                   *)
(***************************************************************************)
EXTENDS Integers, Sequences, FiniteSets, Bags, TLC

VARIABLES
    \* ---- classification pipeline (EmotionAnalysisService.analyzeText)
    useAI,          \* this.useAI, fixed by the constructor
    text,           \* the argument of analyzeText
    pc,             \* "start" | "awaitRemote" | "done"
    reply,          \* what the remote provider call produced, NoReply before
    outcome,        \* what analyzeText gave its caller
    remoteCalls,    \* number of provider calls made by this invocation
    lexiconCalls,   \* number of analyzeTextWithKeywords runs of this invocation
    \* ---- multimodal fusion (fuseEmotionResults)
    textResult,     \* first argument
    audioResult,    \* second argument
    fused,          \* the returned object, NoOutcome before the call
    \* ---- session completion (sessionCompletion.js)
    qaHistory,      \* the argument
    called,         \* which exported function ran, "none" before
    completion,     \* what it returned or that it threw
    dominantEmotion,\* first argument of a direct suggestPlaces call
    placesReply,    \* what the generation request of that call produced
    \* ---- compatibility scoring (the three match-score entry points)
    user1,          \* first profile
    user2,          \* second profile
    user1Entries,   \* recent entries of user1, most recent last
    user2Entries,   \* recent entries of user2, most recent last
    matchScore,     \* what the entry point returned, NoOutcome before
    cosineCall,     \* what the imported cosine did in the scoring call
    \* ---- friend ranking (FriendMatchingService.findMatches)
    targetUser,         \* first argument
    potentialFriends,   \* second argument, in the order given
    matches,            \* the returned array, NoOutcome before the call
    \* ---- conversation routes (routes/conversations.js)
    conversations,      \* the conversation objects ever created, by id
    activeConversations,\* the ids the Map holds
    inflight,           \* bag of respond handlers suspended at an await
    timers,             \* pending setTimeout cleanups, per conversation
    reportRuns,         \* runs of generateSessionCompletion, per conversation
    reportedTurns,      \* history length the last run was computed from
    requests,           \* respond requests received so far
    lastResponse        \* the response sent last

clsVars == <<useAI, text, pc, reply, outcome, remoteCalls, lexiconCalls>>

fuseVars == <<textResult, audioResult, fused>>

sumVars == <<qaHistory, called, completion, dominantEmotion, placesReply>>

scoreVars == <<user1, user2, user1Entries, user2Entries, matchScore, cosineCall>>

findVars == <<targetUser, potentialFriends, matches>>

convVars ==
    <<conversations, activeConversations, inflight, timers, reportRuns, reportedTurns,
      requests, lastResponse>>

vars == <<clsVars, fuseVars, sumVars, scoreVars, findVars, convVars>>

notClsVars == <<fuseVars, sumVars, scoreVars, findVars, convVars>>

notFuseVars == <<clsVars, sumVars, scoreVars, findVars, convVars>>

notSumVars == <<clsVars, fuseVars, scoreVars, findVars, convVars>>

notScoreVars == <<clsVars, fuseVars, sumVars, findVars, convVars>>

notConvVars == <<clsVars, fuseVars, sumVars, scoreVars, findVars>>

notFindVars == <<clsVars, fuseVars, sumVars, scoreVars, convVars>>

-----------------------------------------------------------------------------
(* Arithmetic helpers *)

Abs(x) == IF x < 0 THEN -x ELSE x

Min(a, b) == IF a < b THEN a ELSE b

Max(a, b) == IF a > b THEN a ELSE b

\* n/d rounded to the nearest integer, halves away from zero (d > 0).
RoundDiv(n, d) ==
    IF n >= 0 THEN (2 * n + d) \div (2 * d)
    ELSE -((2 * (-n) + d) \div (2 * d))

RECURSIVE SumSeq(_)
SumSeq(s) == IF s = <<>> THEN 0 ELSE Head(s) + SumSeq(Tail(s))

\* All sequences over S of length 0..n.
SeqsUpTo(S, n) == UNION {[1..k -> S] : k \in 0..n}

-----------------------------------------------------------------------------
(* Bounds of the model *)

MaxTokens == 2

MaxHistory == 3

MaxEntries == 4

MaxInFlight == 2

MaxRequests == 6

\* longest list of candidates handed to findMatches
MaxFriends == 12

-----------------------------------------------------------------------------
(* The closed set of emotion labels of the prompt                          *)

ClosedSet ==
    {"happy", "sad", "anxious", "calm", "angry", "neutral", "excited", "peaceful"}

Missing == "<missing>"

(***************************************************************************)
(* Texts.  A string is a sequence of words of a small vocabulary, plus a   *)
(* flag for a string made of white space only.  Each word carries what the *)
(* classifier reads from it: the keyword sets it belongs to, its AFINN     *)
(* polarity (the sentiment package's additive score) and whether the       *)
(* negative-word pattern of the fallback branch matches it.                *)
(***************************************************************************)
Vocabulary ==
    {"happy", "sad", "worried", "calm", "balanced", "good", "sorry", "not", "now", "today"}

emotionKeywords(w) ==
    CASE w = "happy"   -> {"happy"}
      [] w = "sad"     -> {"sad"}
      [] w = "worried" -> {"anxious"}
      [] w = "calm"    -> {"calm"}
      \* listed under calm and under neutral
      [] w = "balanced" -> {"calm", "neutral"}
      [] OTHER         -> {}

\* sentimentAnalyzer.analyze(text).score contribution of one word
wordPolarity(w) ==
    CASE w = "happy"   -> 3
      [] w = "sad"     -> -2
      [] w = "worried" -> -3
      [] w = "calm"    -> 2
      [] w = "good"    -> 3
      [] w = "sorry"   -> -1
      [] OTHER         -> 0

\* /\b(un|not|never|no|dis|hate|terrible|awful|bad|worse|worst|unfortunately|sadly)\w*/
\* (the alternatives match as prefixes: "no\w*" also matches "now")
negativeWord(w) == w \in {"not", "now"}

Strings ==
    {[blank |-> FALSE, words |-> ws] : ws \in SeqsUpTo(Vocabulary, MaxTokens)}
      \cup {[blank |-> TRUE, words |-> <<>>]}

EmptyString == [blank |-> FALSE, words |-> <<>>]

NullInput == [notString |-> "null"]

NumberInput == [notString |-> "number"]

Inputs == Strings \cup {NullInput, NumberInput}

IsString(t) == "words" \in DOMAIN t

\* the guard without its "!text" half: the empty string passes
InvalidInputTypeOnly(t) == ~IsString(t)

\* !text || typeof text !== 'string'
InvalidInput(t) == ~IsString(t) \/ t = EmptyString

-----------------------------------------------------------------------------
(* Lexicon classifier: analyzeTextWithKeywords *)

FamilyOrder == <<"happy", "sad", "angry", "anxious", "calm", "neutral">>

\* cleanText.match(emotionPatterns[emotion]).length
emotionScores(t, e) ==
    Cardinality({i \in 1..Len(t.words) : e \in emotionKeywords(t.words[i])})

totalMatches(t) == SumSeq([i \in 1..6 |-> emotionScores(t, FamilyOrder[i])])

sentimentScore(t) == SumSeq([i \in 1..Len(t.words) |-> wordPolarity(t.words[i])])

hasNegativeWords(t) == \E i \in 1..Len(t.words) : negativeWord(t.words[i])

\* the forEach with "score > maxScore": the first emotion of the declaration
\* order that reaches the highest count
RECURSIVE primaryScanLastWins(_, _, _, _)
\* the scan with "score >= maxScore": the last emotion reaching the highest count
primaryScanLastWins(t, i, best, maxScore) ==
    IF i > 6 THEN [emotion |-> best, maxScore |-> maxScore]
    ELSE IF emotionScores(t, FamilyOrder[i]) >= maxScore
              /\ emotionScores(t, FamilyOrder[i]) > 0
         THEN primaryScanLastWins(t, i + 1, FamilyOrder[i], emotionScores(t, FamilyOrder[i]))
         ELSE primaryScanLastWins(t, i + 1, best, maxScore)

RECURSIVE primaryScan(_, _, _, _)
primaryScan(t, i, best, maxScore) ==
    IF i > 6 THEN [emotion |-> best, maxScore |-> maxScore]
    ELSE IF emotionScores(t, FamilyOrder[i]) > maxScore
         THEN primaryScan(t, i + 1, FamilyOrder[i], emotionScores(t, FamilyOrder[i]))
         ELSE primaryScan(t, i + 1, best, maxScore)

\* the fallback branch with "score < 0" in place of "score < -1"
analyzeTextWithKeywordsSadBelowZero(t) ==
    LET scan  == primaryScan(t, 1, "neutral", 0)
        score == sentimentScore(t)
        n     == Len(t.words)
    IN  IF totalMatches(t) > 0
        THEN [kind       |-> "result",
              emotion    |-> scan.emotion,
              intensity  |-> Min(RoundDiv(1000 * scan.maxScore, n) + 10 * Abs(score), 100),
              confidence |-> Min(70 + 10 * scan.maxScore, 90),
              method     |-> "keyword_sentiment_hybrid"]
        ELSE [kind       |-> "result",
              emotion    |-> IF hasNegativeWords(t) \/ score < 0 THEN "sad"
                             ELSE IF score > 3 THEN "happy"
                             ELSE "neutral",
              intensity  |-> IF hasNegativeWords(t) \/ score < 0
                                 THEN Min(RoundDiv(100 * Abs(score), 8), 80)
                             ELSE IF score > 3 THEN Min(10 * score, 90)
                             ELSE 50,
              confidence |-> Min(40 + 5 * Abs(score), 70),
              method     |-> "keyword_sentiment_hybrid"]

analyzeTextWithKeywords(t) ==
    LET scan  == primaryScan(t, 1, "neutral", 0)
        score == sentimentScore(t)
        n     == Len(t.words)
    IN  IF totalMatches(t) > 0
        THEN [kind       |-> "result",
              emotion    |-> scan.emotion,
              \* Math.min(maxScore / tokens.length * 10 + |score / 10|, 1.0)
              intensity  |-> Min(RoundDiv(1000 * scan.maxScore, n) + 10 * Abs(score), 100),
              \* Math.min(0.7 + maxScore * 0.1, 0.9)
              confidence |-> Min(70 + 10 * scan.maxScore, 90),
              method     |-> "keyword_sentiment_hybrid"]
        ELSE [kind       |-> "result",
              emotion    |-> IF hasNegativeWords(t) \/ score < -1 THEN "sad"
                             ELSE IF score > 3 THEN "happy"
                             ELSE "neutral",
              intensity  |-> IF hasNegativeWords(t) \/ score < -1
                                 THEN Min(RoundDiv(100 * Abs(score), 8), 80)
                             ELSE IF score > 3 THEN Min(10 * score, 90)
                             ELSE 50,
              \* Math.min(0.4 + |score| * 0.05, 0.7)
              confidence |-> Min(40 + 5 * Abs(score), 70),
              method     |-> "keyword_sentiment_hybrid"]

-----------------------------------------------------------------------------
(* Remote inference: callGemini / callOpenAI / callAnthropic               *)

NoReply == [kind |-> "none"]

\* Numbers a provider may put in its JSON, in thousandths; Missing; a string.
JsonNumbers == {-500, 455, 1500}

JsonFieldValues ==
    {[type |-> "number", value |-> n] : n \in JsonNumbers}
      \cup {[type |-> "undefined", value |-> 0], [type |-> "string", value |-> 0]}

JsonEmotions == {"happy", "peaceful", "joyful", Missing}

JsonObjects ==
    {[kind |-> "json", isObject |-> TRUE, emotion |-> e, intensity |-> i, confidence |-> c] :
        e \in JsonEmotions, i \in JsonFieldValues, c \in JsonFieldValues}

JsonNull == [kind |-> "json", isObject |-> FALSE]

\* fetch rejects; !response.ok; data.candidates[0]... is undefined; JSON.parse throws
CallFailures ==
    {[kind |-> k] : k \in {"networkError", "httpError", "badEnvelope", "malformedJSON"}}

Replies == CallFailures \cup {JsonNull} \cup JsonObjects

IsNumber(v) == v.type = "number"

\* The call itself threw (callGemini's catch rethrows), or reading the parsed
\* value throws: result.emotion of null, or toFixed of something not a number.
RemoteThrows(r) ==
    \/ r \in CallFailures
    \/ r = JsonNull
    \/ r \in JsonObjects /\ (~IsNumber(r.intensity) \/ ~IsNumber(r.confidence))

\* parseFloat(x.toFixed(2)) of a number given in thousandths, in hundredths
toFixed2(x) == RoundDiv(x, 10)

\* the object literal of analyzeTextWithAI, lines 111-130
aiResult(r) ==
    [kind       |-> "result",
     emotion    |-> r.emotion,
     intensity  |-> toFixed2(r.intensity.value),
     confidence |-> toFixed2(r.confidence.value),
     method     |-> "ai_powered"]

ErrorOutcome == [kind |-> "error"]

NoOutcome == [kind |-> "none"]

-----------------------------------------------------------------------------
(* analyzeText as a state machine: one action per run between two awaits   *)

\* Each specification below exercises one component; the variables of the
\* others rest at these values.
ClassifyIdle ==
    /\ useAI = FALSE
    /\ text = NullInput
    /\ pc = "off"
    /\ reply = NoReply
    /\ outcome = NoOutcome
    /\ remoteCalls = 0
    /\ lexiconCalls = 0

FuseIdle ==
    /\ textResult = NoOutcome
    /\ audioResult = NoOutcome
    /\ fused = NoOutcome

SummarizeIdle ==
    /\ qaHistory = <<>>
    /\ called = "off"
    /\ completion = NoOutcome
    /\ dominantEmotion = Missing
    /\ placesReply = NoReply

ScoreIdle ==
    /\ user1 = NoOutcome
    /\ user2 = NoOutcome
    /\ user1Entries = <<>>
    /\ user2Entries = <<>>
    /\ matchScore = NoOutcome
    /\ cosineCall = "none"

FindIdle ==
    /\ targetUser = NoOutcome
    /\ potentialFriends = <<>>
    /\ matches = NoOutcome

ConversationsIdle ==
    /\ conversations = <<>>
    /\ activeConversations = {}
    /\ inflight = <<>>
    /\ timers = <<>>
    /\ reportRuns = <<>>
    /\ reportedTurns = <<>>
    /\ requests = 0
    /\ lastResponse = NoOutcome

OthersIdle(component) ==
    /\ component = "conversations" \/ ConversationsIdle
    /\ component = "score" \/ ScoreIdle
    /\ component = "find" \/ FindIdle
    /\ component = "classify" \/ ClassifyIdle
    /\ component = "fuse" \/ FuseIdle
    /\ component = "summarize" \/ SummarizeIdle

InitClassify ==
    /\ OthersIdle("classify")
    /\ useAI \in BOOLEAN
    /\ text \in Inputs
    /\ pc = "start"
    /\ reply = NoReply
    /\ outcome = NoOutcome
    /\ remoteCalls = 0
    /\ lexiconCalls = 0

\* line 37: the guard throws, the catch of line 49 rethrows to the caller
AnalyzeTextRejects ==
    /\ pc = "start"
    /\ InvalidInput(text)
    /\ outcome' = ErrorOutcome
    /\ pc' = "done"
    /\ UNCHANGED <<useAI, text, reply, remoteCalls, lexiconCalls>>
    /\ UNCHANGED notClsVars

\* line 47: no provider credential, keyword analysis
AnalyzeTextKeywords ==
    /\ pc = "start"
    /\ ~InvalidInput(text)
    /\ ~useAI
    /\ outcome' = analyzeTextWithKeywords(text)
    /\ lexiconCalls' = lexiconCalls + 1
    /\ pc' = "done"
    /\ UNCHANGED <<useAI, text, reply, remoteCalls>>
    /\ UNCHANGED notClsVars

\* lines 43, 89-98: the provider call is issued and awaited
AnalyzeTextCallsRemote ==
    /\ pc = "start"
    /\ ~InvalidInput(text)
    /\ useAI
    /\ remoteCalls' = remoteCalls + 1
    /\ pc' = "awaitRemote"
    /\ UNCHANGED <<useAI, text, reply, outcome, lexiconCalls>>
    /\ UNCHANGED notClsVars

\* a failed call answered by one more provider call instead of the fallback
RemoteFailsAndRetries ==
    /\ pc = "awaitRemote"
    /\ remoteCalls < 3
    /\ \E r \in Replies :
        /\ RemoteThrows(r)
        /\ reply' = r
    /\ remoteCalls' = remoteCalls + 1
    /\ UNCHANGED <<useAI, text, pc, outcome, lexiconCalls>>
    /\ UNCHANGED notClsVars

\* the awaited call settles with a failure: catch of line 132, keyword fallback
RemoteFails ==
    /\ pc = "awaitRemote"
    /\ \E r \in Replies :
        /\ RemoteThrows(r)
        /\ reply' = r
    /\ outcome' = analyzeTextWithKeywords(text)
    /\ lexiconCalls' = lexiconCalls + 1
    /\ pc' = "done"
    /\ UNCHANGED <<useAI, text, remoteCalls>>
    /\ UNCHANGED notClsVars

\* the awaited call settles with a parsed object whose numbers are numbers
RemoteAnswers ==
    /\ pc = "awaitRemote"
    /\ \E r \in Replies :
        /\ ~RemoteThrows(r)
        /\ reply' = r
        /\ outcome' = aiResult(r)
    /\ pc' = "done"
    /\ UNCHANGED <<useAI, text, remoteCalls, lexiconCalls>>
    /\ UNCHANGED notClsVars

NextClassify ==
    \/ AnalyzeTextRejects
    \/ AnalyzeTextKeywords
    \/ AnalyzeTextCallsRemote
    \/ RemoteFails
    \/ RemoteAnswers

SpecClassify == InitClassify /\ [][NextClassify]_vars

\* The JavaScript runtime runs every continuation that is ready; nothing in
\* callGemini/callOpenAI/callAnthropic (a fetch without signal or timer) makes
\* the awaited provider call settle, so the two Remote actions carry no fairness.
FairClassify ==
    SpecClassify
      /\ WF_vars(AnalyzeTextRejects \/ AnalyzeTextKeywords \/ AnalyzeTextCallsRemote)

-----------------------------------------------------------------------------
(* Properties of the classification pipeline *)

(* C1: whatever path produced it, a result returned by analyzeText has its
   intensity and its confidence in [0,1] and an emotion of the closed set. *)
C1_ResultWithinContract ==
    outcome.kind = "result" =>
        /\ outcome.intensity \in 0..100
        /\ outcome.confidence \in 0..100
        /\ outcome.emotion \in ClosedSet

\* The failures the pipeline is to treat as soft: the call failed, the body
\* was not JSON, the JSON violates the schema, or its emotion is no label of
\* the closed set.
SoftFailure(r) ==
    \/ r \in CallFailures
    \/ r = JsonNull
    \/ r \in JsonObjects
        /\ \/ ~IsNumber(r.intensity)
           \/ ~IsNumber(r.confidence)
           \/ r.emotion \notin ClosedSet

(* C2: after any soft failure of the remote step, analyzeText returns the
   lexicon classifier's result for the same text, and no error. *)
C2_SoftFailureFallsBackToLexicon ==
    (pc = "done" /\ SoftFailure(reply)) => outcome = analyzeTextWithKeywords(text)

(* C3: every analyzeText invocation eventually returns, even when the remote
   provider never answers. *)
C3_ClassifyEventuallyReturns == <>(pc = "done")

(* C17: one invocation calls the provider at most once and runs the lexicon
   classifier at most once; without a credential it makes no provider call;
   with one, the lexicon runs only after the single provider call has
   failed, and the invocation then ends with the lexicon result. *)
C17_RemoteIsSingleShot ==
    /\ remoteCalls <= 1
    /\ lexiconCalls <= 1
    /\ ~useAI => (remoteCalls = 0 /\ reply = NoReply)
    /\ (useAI /\ lexiconCalls = 1) =>
          /\ remoteCalls = 1
          /\ reply # NoReply
          /\ RemoteThrows(reply)
    /\ (pc = "done" /\ reply # NoReply /\ RemoteThrows(reply)) =>
          /\ remoteCalls = 1
          /\ lexiconCalls = 1
          /\ outcome = analyzeTextWithKeywords(text)

C17_Witness ==
    /\ pc = "done"
    /\ useAI
    /\ reply = [kind |-> "networkError"]
    /\ remoteCalls = 1
    /\ lexiconCalls = 1
    /\ outcome = analyzeTextWithKeywords(text)

\* the invocation ran the lexicon classifier on a text without emotion keyword
LexiconFallback ==
    /\ pc = "done"
    /\ lexiconCalls = 1
    /\ totalMatches(text) = 0

\* some word of the text starts with an alternative of the negative pattern
NegationPresent == \E i \in 1..Len(text.words) : negativeWord(text.words[i])

(* C20: without an emotion keyword the lexicon classifier labels the text
   sad if the sentiment score is below 0 or a negation prefix or word is
   present, happy if the score is greater than 3, and neutral otherwise. *)
C20_SadWhenScoreNegative ==
    LexiconFallback =>
        outcome.emotion =
            IF sentimentScore(text) < 0 \/ NegationPresent THEN "sad"
            ELSE IF sentimentScore(text) > 3 THEN "happy"
            ELSE "neutral"

(* C20, amended: without an emotion keyword the lexicon classifier labels
   the text sad if the sentiment score is below -1 or a word starting with
   an alternative of the negative pattern is present, happy if the score is
   greater than 3, and neutral otherwise; a score of exactly -1 without such
   a word is neutral. *)
C20_SadWhenScoreBelowMinusOne ==
    LexiconFallback =>
        outcome.emotion =
            IF sentimentScore(text) < -1 \/ NegationPresent THEN "sad"
            ELSE IF sentimentScore(text) > 3 THEN "happy"
            ELSE "neutral"

C20_Witness ==
    /\ LexiconFallback
    /\ text.words = <<"sorry">>
    /\ sentimentScore(text) = -1
    /\ ~NegationPresent
    /\ outcome.emotion = "neutral"

\* the invocation ran the lexicon classifier on a text with at least one token
LexiconRan ==
    /\ pc = "done"
    /\ lexiconCalls = 1
    /\ Len(text.words) > 0

\* clamp((matchCount / tokenCount) * 10 + |sentimentScore| / 10, 0, 1), in
\* hundredths, matchCount being the count of the winning keyword set
intensityFormula(t) ==
    Max(0, Min(100, RoundDiv(1000 * primaryScan(t, 1, "neutral", 0).maxScore, Len(t.words))
                      + 10 * Abs(sentimentScore(t))))

(* C22: on every lexicon path, the zero-keyword-match path included, the
   intensity equals clamp((matchCount / tokenCount) * 10 +
   |sentimentScore| / 10, 0, 1). *)
C22_IntensityFormulaOnEveryPath ==
    LexiconRan => outcome.intensity = intensityFormula(text)

\* position of an emotion in the declaration order
FamilyIndex(e) == CHOOSE i \in 1..6 : FamilyOrder[i] = e

(* C23: with at least one keyword match the lexicon classifier returns the
   emotion whose keyword set has the most matches, the first of the order
   happy, sad, angry, anxious, calm, neutral among those tied; the emotion
   it returns is always one of these six. *)
C23_MostMatchesFirstDeclared ==
    (pc = "done" /\ lexiconCalls = 1) =>
        /\ \E i \in 1..6 : FamilyOrder[i] = outcome.emotion
        /\ totalMatches(text) > 0 =>
              LET won == FamilyIndex(outcome.emotion)
              IN  /\ \A j \in 1..6 :
                        emotionScores(text, FamilyOrder[j]) <= emotionScores(text, outcome.emotion)
                  /\ \A j \in 1..(won - 1) :
                        emotionScores(text, FamilyOrder[j]) < emotionScores(text, outcome.emotion)

C23_Witness ==
    /\ pc = "done"
    /\ lexiconCalls = 1
    /\ text.words = <<"sad", "happy">>
    /\ emotionScores(text, "sad") = emotionScores(text, "happy")
    /\ outcome.emotion = "happy"

(* C4: analyzeText ends in an error exactly when its input is not a string
   or is the empty string; then no provider call and no lexicon run was
   made; every other input ends in a result, and nothing is returned before
   the invocation is done. *)
C4_FailsIffInvalidInput ==
    /\ pc # "done" => outcome = NoOutcome
    /\ pc = "done" =>
        /\ outcome.kind \in {"error", "result"}
        /\ outcome.kind = "error" <=> (~IsString(text) \/ text = EmptyString)
        /\ outcome.kind = "error" => (remoteCalls = 0 /\ lexiconCalls = 0)
        /\ outcome.kind = "result" => remoteCalls + lexiconCalls >= 1

C4_Witness ==
    /\ pc = "done"
    /\ useAI
    /\ text = EmptyString
    /\ outcome = ErrorOutcome
    /\ remoteCalls = 0

-----------------------------------------------------------------------------
(* Multimodal fusion: fuseEmotionResults                                   *)

\* as fuseEmotionResults, with the agreement branch scaled by the factor of
\* the disagreement branch
fuseAgreementPenalised(t, a) ==
    LET weighted == 80 * t.confidence + 20 * a.confidence
    IN  [kind       |-> "result",
         emotion    |-> IF t.emotion # a.emotion /\ a.confidence > t.confidence
                        THEN a.emotion ELSE t.emotion,
         intensity  |-> RoundDiv(80 * t.intensity + 20 * a.intensity, 100),
         confidence |-> RoundDiv(weighted * 8, 1000),
         method     |-> "multimodal_fusion"]

\* as fuseEmotionResults, with the audio emotion adopted on equal confidence too
fuseAudioOnTie(t, a) ==
    LET emotionsMatch == t.emotion = a.emotion
        weighted      == 80 * t.confidence + 20 * a.confidence
    IN  [kind       |-> "result",
         emotion    |-> IF ~emotionsMatch /\ a.confidence >= t.confidence
                        THEN a.emotion ELSE t.emotion,
         intensity  |-> RoundDiv(80 * t.intensity + 20 * a.intensity, 100),
         confidence |-> IF emotionsMatch
                        THEN Min(RoundDiv(weighted * 12, 1000), 95)
                        ELSE RoundDiv(weighted * 8, 1000),
         method     |-> "multimodal_fusion"]

fuseEmotionResults(t, a) ==
    LET emotionsMatch == t.emotion = a.emotion
        \* (confidence * 0.8 + confidence * 0.2), in 1/10000
        weighted      == 80 * t.confidence + 20 * a.confidence
    IN  [kind       |-> "result",
         emotion    |-> IF ~emotionsMatch /\ a.confidence > t.confidence
                        THEN a.emotion ELSE t.emotion,
         intensity  |-> RoundDiv(80 * t.intensity + 20 * a.intensity, 100),
         confidence |-> IF emotionsMatch
                        THEN Min(RoundDiv(weighted * 12, 1000), 95)
                        ELSE RoundDiv(weighted * 8, 1000),
         method     |-> "multimodal_fusion"]

FuseEmotions == {"happy", "sad"}

FuseIntensities == {25, 80}

Hundredths == 0..100

FuseInputs ==
    {[kind |-> "result", emotion |-> e, intensity |-> i, confidence |-> c, method |-> "input"] :
        e \in FuseEmotions, i \in FuseIntensities, c \in Hundredths}

InitFuse ==
    /\ OthersIdle("fuse")
    /\ textResult \in FuseInputs
    /\ audioResult \in FuseInputs
    /\ fused = NoOutcome

Fuse ==
    /\ fused = NoOutcome
    /\ fused' = fuseEmotionResults(textResult, audioResult)
    /\ UNCHANGED <<textResult, audioResult>>
    /\ UNCHANGED notFuseVars

NextFuse == Fuse

SpecFuse == InitFuse /\ [][NextFuse]_vars

(* C8 as stated: on agreement the fused confidence is at least 0.8 times the
   larger of the two input confidences. *)
C8_AgreementAtLeastLargerTimes08 ==
    (fused # NoOutcome /\ textResult.emotion = audioResult.emotion) =>
        10 * fused.confidence >= 8 * Max(textResult.confidence, audioResult.confidence)

(* C8 as amended: on agreement the fused confidence is at least 0.8 times the
   smaller of the two input confidences (confidences in hundredths). *)
C8_AgreementAtLeastSmallerTimes08 ==
    (fused # NoOutcome /\ textResult.emotion = audioResult.emotion) =>
        10 * fused.confidence >= 8 * Min(textResult.confidence, audioResult.confidence)

C8_Witness ==
    /\ fused # NoOutcome
    /\ textResult.emotion = audioResult.emotion
    /\ textResult.confidence = 0
    /\ audioResult.confidence = 100
    /\ fused.confidence = 24

\* value (in hundredths) is exact (in 1/100000) rounded to two decimals
RoundsTo(value, exact) == Abs(1000 * value - exact) <= 500

(* C15: the fused intensity and confidence are the 0.8 / 0.2 weighted
   averages of text and audio, given to two decimals; on agreement the
   confidence is multiplied by 1.2 and capped at 0.95, on disagreement it is
   multiplied by 0.8 and the emotion is that of the source with the strictly
   higher confidence, the text emotion on a tie; the fused emotion is one of
   the two input emotions and intensity and confidence stay in [0,1]. *)
C15_FuseFollowsRule ==
    fused # NoOutcome =>
        LET t        == textResult
            a        == audioResult
            weighted == 80 * t.confidence + 20 * a.confidence
        IN  /\ fused.kind = "result"
            /\ RoundsTo(fused.intensity, 10 * (80 * t.intensity + 20 * a.intensity))
            /\ t.emotion = a.emotion =>
                  /\ fused.emotion = t.emotion
                  /\ IF 12 * weighted <= 95000
                     THEN RoundsTo(fused.confidence, 12 * weighted)
                     ELSE fused.confidence = 95
            /\ t.emotion # a.emotion =>
                  /\ RoundsTo(fused.confidence, 8 * weighted)
                  /\ fused.emotion = IF a.confidence > t.confidence THEN a.emotion ELSE t.emotion
            /\ fused.emotion \in {t.emotion, a.emotion}
            /\ fused.intensity \in 0..100
            /\ fused.confidence \in 0..100

C15_Witness ==
    /\ fused # NoOutcome
    /\ textResult.emotion = "happy" /\ audioResult.emotion = "sad"
    /\ textResult.confidence = 50 /\ audioResult.confidence = 50
    /\ fused.emotion = "happy"
    /\ fused.confidence = 40

-----------------------------------------------------------------------------
(* Session completion: calculateWellnessScore, generateSessionCompletion   *)

\* An entry's intensity: a number in hundredths, or undefined.
Undefined == [type |-> "undefined", value |-> 0]

Num(n) == [type |-> "number", value |-> n]

SessionEmotions == {"happy", "sad", "joyful", Missing}

\* in hundredths; 2.5 and -1.5 lie outside [0,1]
SessionIntensities == {Num(0), Num(100), Num(250), Num(-150), Undefined}

QAEntries == {[emotion |-> e, intensity |-> i] : e \in SessionEmotions, i \in SessionIntensities}

Histories == SeqsUpTo(QAEntries, MaxHistory)

\* the emotionScores table of calculateWellnessScore; 0 stands for "no entry"
wellnessBase(e) ==
    CASE e = "happy"    -> 90
      [] e = "excited"  -> 85
      [] e = "calm"     -> 80
      [] e = "peaceful" -> 85
      [] e = "hopeful"  -> 75
      [] e = "neutral"  -> 60
      [] e = "confused" -> 45
      [] e = "anxious"  -> 35
      [] e = "sad"      -> 30
      [] e = "angry"    -> 25
      [] e = "stressed" -> 30
      [] OTHER          -> 0

\* one pass of the forEach of lines 42-52, in hundredths of a score point
entryScore(qa) ==
    LET baseScore == IF wellnessBase(qa.emotion) # 0 THEN wellnessBase(qa.emotion) ELSE 50
        \* qa.intensity || 0.5
        intensity == IF IsNumber(qa.intensity) /\ qa.intensity.value # 0
                     THEN qa.intensity.value ELSE 50
    IN  baseScore * intensity + 60 * (100 - intensity)

\* the average of the entry scores, rounded (Math.round rounds halves up)
averageScore(h) ==
    LET totalScore == SumSeq([i \in 1..Len(h) |-> entryScore(h[i])])
        divisor    == 100 * Len(h)
    IN  (2 * totalScore + divisor) \div (2 * divisor)

\* as calculateWellnessScore, returning the rounded average as it is
calculateWellnessScoreUnclamped(h) ==
    IF Len(h) = 0 THEN 50 ELSE averageScore(h)

calculateWellnessScore(h) ==
    IF Len(h) = 0
    THEN 50
    ELSE Max(0, Min(100, averageScore(h)))

\* emotionCounts[e] after the forEach of lines 433-436
emotionCount(h, e) == Cardinality({i \in 1..Len(h) : h[i].emotion = e})

\* Object.keys(emotionCounts): the labels in order of first occurrence
RECURSIVE emotionKeys(_)
emotionKeys(h) ==
    IF h = <<>> THEN <<>>
    ELSE LET front == emotionKeys(SubSeq(h, 1, Len(h) - 1))
             last  == h[Len(h)].emotion
         IN  IF \E i \in 1..Len(front) : front[i] = last THEN front ELSE Append(front, last)

\* keys.reduce((a, b) => emotionCounts[a] > emotionCounts[b] ? a : b)
RECURSIVE reduceDominant(_, _, _)
reduceDominant(h, a, rest) ==
    IF rest = <<>> THEN a
    ELSE LET b == Head(rest)
         IN  reduceDominant(h, IF emotionCount(h, a) > emotionCount(h, b) THEN a ELSE b,
                            Tail(rest))

\* the professional bucket with the urgent entries pushed below 50
professionalUrgentBelowFifty(wellnessScore) ==
    IF wellnessScore < 50
        THEN <<[title |-> "Consider Professional Support", urgent |-> TRUE],
               [title |-> "Crisis Support Available", urgent |-> TRUE]>>
    ELSE IF wellnessScore < 60
        THEN <<[title |-> "Talk to Someone", urgent |-> FALSE]>>
    ELSE <<>>

\* the professional bucket of generateRecommendations, lines 145-167
professional(wellnessScore) ==
    IF wellnessScore < 40
        THEN <<[title |-> "Consider Professional Support", urgent |-> TRUE],
               [title |-> "Crisis Support Available", urgent |-> TRUE]>>
    ELSE IF wellnessScore < 60
        THEN <<[title |-> "Talk to Someone", urgent |-> FALSE]>>
    ELSE <<>>

\* ---- suggestPlaces
\* What the axios.post of suggestPlaces produces: the request is rejected
\* (network error, or the 30 s timeout), or a response arrives whose text is
\* missing, holds no JSON array, holds brackets that do not parse, or holds
\* a JSON array of the given items.
PlaceRejections == {[kind |-> "rejected", why |-> w] : w \in {"network", "timeout"}}

PlaceTexts == {[kind |-> "response", body |-> b, items |-> <<>>] :
                  b \in {"noText", "noArray", "unparsable"}}

GeneratedPlace(n) == [isObject |-> TRUE, name |-> n]

NullItem == [isObject |-> FALSE, name |-> Missing]

PlaceArrays ==
    {[kind |-> "response", body |-> "array", items |-> i] :
        i \in {<<GeneratedPlace("Cubbon Park"), GeneratedPlace("Yoga Institute"),
                 GeneratedPlace("Lalbagh Garden")>>,
               <<GeneratedPlace("Cubbon Park")>>,
               <<GeneratedPlace("Cubbon Park"), NullItem>>}}

PlaceReplies == PlaceRejections \cup PlaceTexts \cup PlaceArrays

\* the try block throws: the await rejects, line 263 or line 293 throws,
\* JSON.parse throws (line 296), or p.name is read of a null item (line 300)
PlacesThrows(r) ==
    \/ r.kind = "rejected"
    \/ r.body # "array"
    \/ \E i \in 1..Len(r.items) : ~r.items[i].isObject

\* placeSuggestions of the catch block, by the names of the entries
placeSuggestions(e) ==
    CASE e = "anxious"  -> <<"Nature Parks", "Quiet Cafes", "Art Museums">>
      [] e = "sad"      -> <<"Botanical Gardens", "Comedy Shows", "Swimming Pools">>
      [] e = "stressed" -> <<"Yoga Studios", "Libraries", "Beaches/Waterfronts">>
      [] e = "angry"    -> <<"Gym/Sports Centers", "Boxing/Martial Arts", "Hiking Trails">>
      [] e = "lonely"   -> <<"Community Centers", "Co-working Spaces", "Gaming Cafes">>
      [] e = "neutral"  -> <<"Creative Workshops", "City Exploration", "Live Music Venues">>
      [] OTHER          -> <<>>

\* the catch block without its "|| placeSuggestions.neutral"
suggestPlacesNoNeutralDefault(e, r) ==
    IF PlacesThrows(r) THEN placeSuggestions(e)
    ELSE [i \in 1..Len(r.items) |-> r.items[i].name]

\* the names of the places suggestPlaces resolves to
suggestPlaces(e, r) ==
    IF PlacesThrows(r)
    THEN IF placeSuggestions(e) # <<>> THEN placeSuggestions(e) ELSE placeSuggestions("neutral")
    ELSE [i \in 1..Len(r.items) |-> r.items[i].name]

\* the reduce of lines 437-439 over the keys of a non-empty history
dominantOf(h) == reduceDominant(h, Head(emotionKeys(h)), Tail(emotionKeys(h)))

\* reduce of an empty array without initial value throws a TypeError
generateSessionCompletion(h, r) ==
    IF emotionKeys(h) = <<>>
    THEN ErrorOutcome
    ELSE LET dominant == dominantOf(h)
         IN  [kind            |-> "report",
              wellnessScore   |-> calculateWellnessScore(h),
              dominantEmotion |-> dominant,
              professional    |-> professional(calculateWellnessScore(h)),
              places          |-> suggestPlaces(dominant, r)]

InitSummarize ==
    /\ OthersIdle("summarize")
    /\ qaHistory \in Histories
    /\ called = "none"
    /\ completion = NoOutcome
    /\ dominantEmotion = Missing
    /\ placesReply = NoReply

CallCalculateWellnessScore ==
    /\ called = "none"
    /\ called' = "calculateWellnessScore"
    /\ completion' = [kind |-> "score", wellnessScore |-> calculateWellnessScore(qaHistory)]
    /\ UNCHANGED <<qaHistory, dominantEmotion, placesReply>>
    /\ UNCHANGED notSumVars

CallGenerateSessionCompletion ==
    /\ called = "none"
    /\ called' = "generateSessionCompletion"
    /\ \E r \in PlaceReplies : completion' = generateSessionCompletion(qaHistory, r)
    /\ UNCHANGED <<qaHistory, dominantEmotion, placesReply>>
    /\ UNCHANGED notSumVars

NextSummarize ==
    \/ CallCalculateWellnessScore
    \/ CallGenerateSessionCompletion

SpecSummarize == InitSummarize /\ [][NextSummarize]_vars

\* ---- suggestPlaces called on its own
PlaceEmotions == {"anxious", "sad", "stressed", "angry", "lonely", "neutral", "happy", Missing}

InitPlaces ==
    /\ OthersIdle("summarize")
    /\ qaHistory \in {h \in Histories : Len(h) <= 1}
    /\ called = "none"
    /\ completion = NoOutcome
    /\ dominantEmotion \in PlaceEmotions
    /\ placesReply \in PlaceReplies

CallSuggestPlaces ==
    /\ called = "none"
    /\ called' = "suggestPlaces"
    /\ completion' = [kind |-> "places", places |-> suggestPlaces(dominantEmotion, placesReply)]
    /\ UNCHANGED <<qaHistory, dominantEmotion, placesReply>>
    /\ UNCHANGED notSumVars

NextPlaces == CallSuggestPlaces

SpecPlaces == InitPlaces /\ [][NextPlaces]_vars

(* C16: a direct call of suggestPlaces always resolves with a list; when the
   generation request fails (rejected, timed out, no text, no JSON array,
   unparsable JSON) the list is the static list of the dominant emotion, or
   the neutral list when the emotion has none, and it has three entries. *)
C16_SuggestPlacesFallsBack ==
    called = "suggestPlaces" =>
        /\ completion.kind = "places"
        /\ (placesReply.kind = "rejected" \/ placesReply.body # "array") =>
              /\ Len(completion.places) = 3
              /\ completion.places =
                    IF dominantEmotion \in {"anxious", "sad", "stressed", "angry", "lonely"}
                    THEN placeSuggestions(dominantEmotion)
                    ELSE placeSuggestions("neutral")

C16_Witness ==
    /\ called = "suggestPlaces"
    /\ placesReply = [kind |-> "rejected", why |-> "timeout"]
    /\ dominantEmotion = "happy"
    /\ completion.places = <<"Creative Workshops", "City Exploration", "Live Music Venues">>

(* C6: for a history with zero entries, neither calculateWellnessScore nor
   generateSessionCompletion returns a score or a report: both end in an
   error. *)
C6_EmptySessionIsRejected ==
    (called \in {"calculateWellnessScore", "generateSessionCompletion"} /\ qaHistory = <<>>)
        => completion.kind = "error"

\* the wellness score the call returned
returnedScore == completion.wellnessScore

(* C12: for every non-empty history, whatever the intensities and emotions
   of its entries, the wellness score returned by calculateWellnessScore or
   carried by the report is an integer between 0 and 100. *)
C12_WellnessScoreWithinRange ==
    (called \in {"calculateWellnessScore", "generateSessionCompletion"} /\ qaHistory # <<>>)
        => (completion.kind \in {"score", "report"} /\ returnedScore \in 0..100)

C12_Witness ==
    /\ called = "calculateWellnessScore"
    /\ qaHistory = <<[emotion |-> "happy", intensity |-> Num(250)],
                    [emotion |-> Missing, intensity |-> Num(-150)]>>
    /\ averageScore(qaHistory) > 100
    /\ returnedScore = 100

\* the entries carry an emotion of the table and an intensity in [0,1]
PlainHistory ==
    /\ qaHistory # <<>>
    /\ \A i \in 1..Len(qaHistory) :
          /\ wellnessBase(qaHistory[i].emotion) # 0
          /\ IsNumber(qaHistory[i].intensity)
          /\ qaHistory[i].intensity.value \in 0..100

\* base * intensity + 60 * (1 - intensity) with the entry's own intensity,
\* in hundredths of a score point
ownIntensityBlend(qa) ==
    wellnessBase(qa.emotion) * qa.intensity.value + 60 * (100 - qa.intensity.value)

(* C21: each entry contributes base*intensity + 60*(1-intensity) with its
   own intensity (60 at intensity 0, the base score at intensity 1), and the
   session score is the rounded mean of these contributions. *)
C21_EntriesBlendWithOwnIntensity ==
    (called = "calculateWellnessScore" /\ PlainHistory) =>
        LET total   == SumSeq([i \in 1..Len(qaHistory) |-> ownIntensityBlend(qaHistory[i])])
            divisor == 100 * Len(qaHistory)
        IN  returnedScore = (2 * total + divisor) \div (2 * divisor)

\* the crisis-hotline entry is in the bucket
HasCrisisEntry(bucket) ==
    \E i \in 1..Len(bucket) : bucket[i].title = "Crisis Support Available"

Reported == called = "generateSessionCompletion" /\ completion.kind = "report"

(* C14 as stated: the professional bucket is non-empty exactly when the
   wellness score is below 60, every entry in it is urgent, and the
   crisis-hotline entry is present exactly when the score is below 40. *)
C14_ProfessionalAlwaysUrgent ==
    Reported =>
        LET bucket == completion.professional
        IN  /\ bucket # <<>> <=> completion.wellnessScore < 60
            /\ \A i \in 1..Len(bucket) : bucket[i].urgent
            /\ HasCrisisEntry(bucket) <=> completion.wellnessScore < 40

(* C14 as amended: the professional bucket is non-empty exactly when the
   wellness score is below 60; below 40 it holds two entries, both urgent,
   one of them the crisis-hotline entry; from 40 to 59 it holds one entry
   that is not urgent and no crisis-hotline entry. *)
C14_ProfessionalUrgentBelowForty ==
    Reported =>
        LET bucket == completion.professional
        IN  /\ bucket # <<>> <=> completion.wellnessScore < 60
            /\ HasCrisisEntry(bucket) <=> completion.wellnessScore < 40
            /\ completion.wellnessScore < 40 =>
                    (Len(bucket) = 2 /\ \A i \in 1..Len(bucket) : bucket[i].urgent)
            /\ completion.wellnessScore \in 40..59 =>
                    (Len(bucket) = 1 /\ ~bucket[1].urgent)

C14_Witness ==
    /\ Reported
    /\ completion.wellnessScore = 40
    /\ completion.professional = <<[title |-> "Talk to Someone", urgent |-> FALSE]>>

\* h with every missing or unlisted emotion replaced by neutral
asNeutral(h) ==
    [i \in 1..Len(h) |->
        IF wellnessBase(h[i].emotion) = 0 THEN [h[i] EXCEPT !.emotion = "neutral"] ELSE h[i]]

(* C13: an entry whose emotion is missing or not in the scoring table counts
   as neutral: the report's wellness score and dominant emotion are those of
   the history with such emotions replaced by neutral (base score 60). *)
C13_UnknownEmotionCountsAsNeutral ==
    (called = "generateSessionCompletion" /\ qaHistory # <<>>) =>
        /\ completion.kind = "report"
        /\ completion.wellnessScore = calculateWellnessScore(asNeutral(qaHistory))
        /\ completion.dominantEmotion = dominantOf(asNeutral(qaHistory))

\* the labels with the highest count in h
MostFrequent(h) ==
    {e \in {h[i].emotion : i \in 1..Len(h)} :
        \A i \in 1..Len(h) : emotionCount(h, h[i].emotion) <= emotionCount(h, e)}

FirstIndex(h, e) == CHOOSE i \in 1..Len(h) : h[i].emotion = e /\ \A j \in 1..(i - 1) : h[j].emotion # e

(* C7: the dominant emotion of a non-empty session is a most frequent label,
   and among the most frequent ones the one that occurs first. *)
C7_DominantIsEarliestMostFrequent ==
    (called = "generateSessionCompletion" /\ qaHistory # <<>>) =>
        /\ completion.kind = "report"
        /\ completion.dominantEmotion \in MostFrequent(qaHistory)
        /\ \A e \in MostFrequent(qaHistory) :
              FirstIndex(qaHistory, completion.dominantEmotion) <= FirstIndex(qaHistory, e)

-----------------------------------------------------------------------------
(* Compatibility scoring: FriendMatchingService, LocalDatabase and the     *)
(* calculate_friend_match_score function of the database schema            *)

\* Sub-scores are integers in units of 1/SCALE; every quotient the scorers
\* form over the bounded inputs (denominators up to 6) is exact in this unit.
SCALE == 60 * 1000

Tenths(n) == n * (SCALE \div 10)

\* floor of the square root, by bisection on lo <= root < hi
RECURSIVE ISqrt(_, _, _)
ISqrt(n, lo, hi) ==
    IF hi - lo <= 1 THEN lo
    ELSE LET mid == (lo + hi) \div 2
         IN  IF mid * mid <= n THEN ISqrt(n, mid, hi) ELSE ISqrt(n, lo, mid)

\* ---- inputs
NoCity == <<>>

Austin == <<"A", "u", "s", "t", "i", "n">>

AustinPadded == <<"a", "u", "s", "t", "i", "n", " ">>

Austins == <<"A", "u", "s", "t", "i", "n", "s">>

Boston == <<"B", "o", "s", "t", "o", "n">>

Cities == {NoCity, Austin, AustinPadded, Austins, Boston}

NoAge == 0

Ages == {NoAge, 25, 30, 45}

InterestLists == {<<>>, <<"Hiking", "yoga">>, <<"hiking">>}

Profiles == {[city |-> c, age |-> a, interests |-> i] : c \in Cities, a \in Ages, i \in InterestLists}

\* "joyful" has no entry in this.emotionVectors
EntryEmotions == {"calm", "sad", "joyful"}

\* a user's entries in the order they were written, moods alternating
Timeline ==
    [k \in 1..MaxEntries |->
        [emotion |-> IF k % 3 = 0 THEN "joyful" ELSE IF k % 2 = 0 THEN "sad" ELSE "calm"]]

\* the histories passed to the scorer: the most recent n entries of the timeline
EntryLists == {SubSeq(Timeline, MaxEntries - n + 1, MaxEntries) : n \in 0..MaxEntries}

\* ---- String.prototype.toLowerCase and trim on the characters in use
toLowerCase(str) ==
    [i \in 1..Len(str) |->
        CASE str[i] = "A" -> "a"
          [] str[i] = "B" -> "b"
          [] str[i] = "H" -> "h"
          [] OTHER        -> str[i]]

RECURSIVE trim(_)
trim(str) ==
    IF str = <<>> THEN str
    ELSE IF Head(str) = " " THEN trim(Tail(str))
    ELSE IF str[Len(str)] = " " THEN trim(SubSeq(str, 1, Len(str) - 1))
    ELSE str

\* interest tags are whole words; lower-casing acts on the tag
tagToLowerCase(tag) ==
    CASE tag = "Hiking" -> "hiking"
      [] OTHER          -> tag

\* ---- FriendMatchingService
getBigrams(str) == {<<str[i], str[i + 1]>> : i \in 1..(Len(str) - 1)}

calculateStringSimilarity(str1, str2) ==
    LET set1 == getBigrams(str1)
        set2 == getBigrams(str2)
    IN  IF str1 = str2 THEN SCALE
        ELSE IF str1 = <<>> \/ str2 = <<>> THEN 0
        ELSE IF set1 \cup set2 = {} THEN 0
        ELSE (SCALE * Cardinality(set1 \cap set2)) \div Cardinality(set1 \cup set2)

calculateLocationMatch(u1, u2) ==
    IF u1.city = NoCity \/ u2.city = NoCity THEN Tenths(1)
    ELSE LET city1      == trim(toLowerCase(u1.city))
             city2      == trim(toLowerCase(u2.city))
             similarity == calculateStringSimilarity(city1, city2)
         IN  IF city1 = city2 THEN Tenths(10)
             ELSE IF 10 * similarity > 8 * SCALE THEN Tenths(8)
             ELSE IF 10 * similarity > 6 * SCALE THEN Tenths(5)
             ELSE Tenths(1)

\* this.emotionVectors, in tenths
emotionVectors(e) ==
    CASE e = "happy"   -> <<10, 8, 2, 1, 3, 5>>
      [] e = "sad"     -> <<1, 2, 10, 3, 1, 4>>
      [] e = "angry"   -> <<2, 1, 4, 10, 2, 3>>
      [] e = "anxious" -> <<3, 2, 6, 7, 10, 4>>
      [] e = "calm"    -> <<6, 9, 1, 1, 2, 10>>
      [] OTHER         -> <<5, 5, 5, 5, 5, 5>>

\* the slice left out: the whole history is averaged
wholeHistory(entries) == entries

\* entries.slice(-3)
lastThree(entries) ==
    IF Len(entries) <= 3 THEN entries ELSE SubSeq(entries, Len(entries) - 2, Len(entries))

\* the average vector, in 1/60 (sum / length is exact for 1 to 3 entries)
getMoodVector(entries) ==
    IF Len(entries) = 0 THEN <<0, 0, 0, 0, 0, 0>>
    ELSE [i \in 1..6 |->
            (6 * SumSeq([k \in 1..Len(entries) |-> emotionVectors(entries[k].emotion)[i]]))
                \div Len(entries)]

dot(v, w) == SumSeq([i \in 1..6 |-> v[i] * w[i]])

\* cosine of the ml-distance package, taken as the cosine distance
\* 1 - v.w / (|v| |w|); the root is rounded down to an integer.
cosine(v, w) ==
    SCALE - (SCALE * dot(v, w)) \div ISqrt(dot(v, v) * dot(w, w), 0, 21601)

\* What the call of the imported cosine does: the package is not part of the
\* sources, so the call either returns the cosine distance or throws.
CosineOutcomes == {"distance", "throws"}

\* the catch of lines 158-161 answers 0.2 when the call throws
calculateMoodSimilarity(entries1, entries2, library) ==
    IF Len(entries1) = 0 \/ Len(entries2) = 0 THEN Tenths(2)
    ELSE IF library = "throws" THEN Tenths(2)
    ELSE LET vector1    == getMoodVector(lastThree(entries1))
             vector2    == getMoodVector(lastThree(entries2))
             similarity == SCALE - cosine(vector1, vector2)
         IN  Max(0, Min(SCALE, similarity))

lowerSet(interests) == {tagToLowerCase(interests[i]) : i \in 1..Len(interests)}

calculateInterestOverlap(interests1, interests2) ==
    IF Len(interests1) = 0 \/ Len(interests2) = 0 THEN Tenths(1)
    ELSE (SCALE * Cardinality(lowerSet(interests1) \cap lowerSet(interests2)))
            \div Cardinality(lowerSet(interests1) \cup lowerSet(interests2))

calculateAgeCompatibility(age1, age2) ==
    IF age1 = NoAge \/ age2 = NoAge THEN Tenths(5)
    ELSE IF Abs(age1 - age2) <= 3 THEN Tenths(10)
    ELSE IF Abs(age1 - age2) <= 7 THEN Tenths(8)
    ELSE IF Abs(age1 - age2) <= 12 THEN Tenths(6)
    ELSE IF Abs(age1 - age2) <= 18 THEN Tenths(4)
    ELSE Tenths(2)

\* the ratio taken as first over larger instead of smaller over larger
calculateActivityMatchFirstOverMax(entries1, entries2) ==
    IF Len(entries1) = 0 /\ Len(entries2) = 0 THEN Tenths(5)
    ELSE (SCALE * Len(entries1)) \div Max(Len(entries1), Len(entries2))

calculateActivityMatch(entries1, entries2) ==
    IF Len(entries1) = 0 /\ Len(entries2) = 0 THEN Tenths(5)
    ELSE (SCALE * Min(Len(entries1), Len(entries2))) \div Max(Len(entries1), Len(entries2))

\* const weights of calculateMatchScore, in hundredths
serviceWeights ==
    [location |-> 40, mood |-> 35, interests |-> 15, age |-> 5, activity |-> 5]

RECURSIVE SumOver(_, _)
SumOver(f, S) ==
    IF S = {} THEN 0
    ELSE LET x == CHOOSE y \in S : TRUE IN f[x] + SumOver(f, S \ {x})

\* sum of breakdown[factor] * weights[factor], rounded to three decimals
weightedTotal(breakdown, weights) ==
    RoundDiv(SumOver([f \in DOMAIN weights |-> breakdown[f] * weights[f]], DOMAIN weights),
             SCALE \div 10)

\* calculateLocationMatch and calculateMoodSimilarity over the inputs in use,
\* evaluated once for each pair instead of once for each state
locationMatches ==
    [c1 \in Cities, c2 \in Cities |-> calculateLocationMatch([city |-> c1], [city |-> c2])]

moodSimilarities ==
    [e1 \in EntryLists, e2 \in EntryLists, library \in CosineOutcomes |->
        calculateMoodSimilarity(e1, e2, library)]

calculateMatchScore(u1, u2, entries1, entries2, library) ==
    LET breakdown ==
            [location  |-> locationMatches[u1.city, u2.city],
             mood      |-> moodSimilarities[entries1, entries2, library],
             interests |-> calculateInterestOverlap(u1.interests, u2.interests),
             age       |-> calculateAgeCompatibility(u1.age, u2.age),
             activity  |-> calculateActivityMatch(entries1, entries2)]
    IN  [kind      |-> "score",
         by        |-> "FriendMatchingService",
         total     |-> weightedTotal(breakdown, serviceWeights),
         breakdown |-> breakdown,
         weights   |-> serviceWeights]

\* getCompatibilityLevel of a total given in thousandths
getCompatibilityLevel(total) ==
    IF total >= 800 THEN "Excellent"
    ELSE IF total >= 600 THEN "Great"
    ELSE IF total >= 400 THEN "Good"
    ELSE IF total >= 200 THEN "Fair"
    ELSE "Limited"

\* ---- LocalDatabase.calculateMatchScore
localAgeScore(age1, age2) ==
    IF age1 = NoAge \/ age2 = NoAge THEN 0
    ELSE IF Abs(age1 - age2) <= 3 THEN Tenths(10)
    ELSE IF Abs(age1 - age2) <= 7 THEN Tenths(8)
    ELSE IF Abs(age1 - age2) <= 12 THEN Tenths(6)
    ELSE Tenths(4)

localWeights == [location |-> 40, mood |-> 35, interests |-> 15, age |-> 10]

localCalculateMatchScore(u1, u2) ==
    LET breakdown ==
            [location  |-> IF u1.city # NoCity /\ u2.city # NoCity
                              /\ toLowerCase(u1.city) = toLowerCase(u2.city)
                           THEN Tenths(10) ELSE Tenths(1),
             mood      |-> Tenths(5),
             interests |-> IF Len(u1.interests) > 0 /\ Len(u2.interests) > 0
                           THEN (SCALE * Cardinality(lowerSet(u1.interests) \cap lowerSet(u2.interests)))
                                   \div Cardinality(lowerSet(u1.interests) \cup lowerSet(u2.interests))
                           ELSE 0,
             age       |-> localAgeScore(u1.age, u2.age)]
    IN  [kind      |-> "score",
         by        |-> "LocalDatabase",
         total     |-> weightedTotal(breakdown, localWeights),
         breakdown |-> breakdown,
         weights   |-> localWeights]

\* ---- calculate_friend_match_score (PL/pgSQL)
sqlWeights == [location |-> 40, mood |-> 35, interests |-> 15, age |-> 5]

\* The interest block runs "SELECT count(*) FROM unnest(a) INTERSECT SELECT
\* unnest(b)": a bigint column intersected with a text column, which the
\* database refuses when the statement is first run. It is reached only when
\* both arrays are non-empty.
sqlCalculateFriendMatchScore(u1, u2) ==
    LET breakdown ==
            [location  |-> IF u1.city # NoCity /\ u2.city # NoCity
                           THEN IF toLowerCase(u1.city) = toLowerCase(u2.city)
                                THEN Tenths(10) ELSE Tenths(1)
                           ELSE 0,
             mood      |-> Tenths(5),
             interests |-> 0,
             age       |-> localAgeScore(u1.age, u2.age)]
    IN  IF Len(u1.interests) > 0 /\ Len(u2.interests) > 0
        THEN ErrorOutcome
        ELSE [kind      |-> "score",
              by        |-> "calculate_friend_match_score",
              total     |-> weightedTotal(breakdown, sqlWeights),
              breakdown |-> breakdown,
              weights   |-> sqlWeights]

InitScore ==
    /\ OthersIdle("score")
    /\ user1 \in Profiles
    /\ user2 \in Profiles
    /\ user1Entries \in EntryLists
    /\ user2Entries \in EntryLists
    /\ matchScore = NoOutcome
    /\ cosineCall = "none"

ServiceScores ==
    /\ matchScore = NoOutcome
    /\ \E library \in CosineOutcomes :
          /\ matchScore' = calculateMatchScore(user1, user2, user1Entries, user2Entries, library)
          /\ cosineCall' = library
    /\ UNCHANGED <<user1, user2, user1Entries, user2Entries>>
    /\ UNCHANGED notScoreVars

LocalDatabaseScores ==
    /\ matchScore = NoOutcome
    /\ matchScore' = localCalculateMatchScore(user1, user2)
    /\ UNCHANGED <<user1, user2, user1Entries, user2Entries, cosineCall>>
    /\ UNCHANGED notScoreVars

SqlFunctionScores ==
    /\ matchScore = NoOutcome
    /\ matchScore' = sqlCalculateFriendMatchScore(user1, user2)
    /\ UNCHANGED <<user1, user2, user1Entries, user2Entries, cosineCall>>
    /\ UNCHANGED notScoreVars

NextScore ==
    \/ ServiceScores
    \/ LocalDatabaseScores
    \/ SqlFunctionScores

SpecScore == InitScore /\ [][NextScore]_vars

SelfScored ==
    /\ matchScore.kind = "score"
    /\ matchScore.by = "FriendMatchingService"
    /\ user1 = user2
    /\ user1Entries = user2Entries

(* C9: a profile scored against itself with the same history has total 1.0,
   whatever fields it lacks. *)
C9_SelfScoreIsOne == SelfScored => matchScore.total = 1000

(* C10: in every entry point the weights of the active factors sum to 1.0,
   every breakdown value is in [0,1] and the total is in [0,1]. *)
C10_WeightsSumToOneEverywhere ==
    matchScore.kind = "score" =>
        /\ SumOver(matchScore.weights, DOMAIN matchScore.weights) = 100
        /\ \A f \in DOMAIN matchScore.breakdown : matchScore.breakdown[f] \in 0..SCALE
        /\ matchScore.total \in 0..1000

\* the service has scored the pair (user1, user2)
ServiceScored == matchScore.kind = "score" /\ matchScore.by = "FriendMatchingService"

(* C11: calculateMatchScore is symmetric: scoring (B, A) with the histories
   swapped gives the same total and the same value of every factor as the
   score returned for (A, B). *)
C11_ScoreIsSymmetric ==
    ServiceScored =>
        LET swapped == calculateMatchScore(user2, user1, user2Entries, user1Entries, cosineCall)
        IN  /\ swapped.total = matchScore.total
            /\ \A f \in {"location", "mood", "interests", "age", "activity"} :
                  swapped.breakdown[f] = matchScore.breakdown[f]

C11_Witness ==
    /\ ServiceScored
    /\ user1.city = Austin /\ user2.city = Boston
    /\ user1.age = 25 /\ user2.age = 45
    /\ user1.interests = <<"hiking">> /\ user2.interests = <<"Hiking", "yoga">>
    /\ Len(user1Entries) = 1 /\ Len(user2Entries) = 0
    /\ matchScore.breakdown.activity = 0
    /\ matchScore.breakdown.interests = SCALE \div 2

\* the most recent three entries of a history (all of a shorter one)
recent(entries) ==
    SubSeq(entries, Max(1, Len(entries) - 2), Len(entries))

\* a label of the vector table
HasVector(e) == e \in {"happy", "sad", "angry", "anxious", "calm", "neutral"}

\* the history with every label that has no vector replaced by neutral
asNeutralLabels(entries) ==
    [k \in 1..Len(entries) |->
        [emotion |-> IF HasVector(entries[k].emotion) THEN entries[k].emotion ELSE "neutral"]]

\* the mood factor of the relabelled histories, for each pair in use
relabelledMoods ==
    [e1 \in EntryLists, e2 \in EntryLists, library \in CosineOutcomes |->
        calculateMoodSimilarity(asNeutralLabels(e1), asNeutralLabels(e2), library)]

(* C24: the mood factor is the one of the last three entries of each
   history (older entries in front of them change nothing), it is 0.2 when
   either history is empty, it lies in [0,1], and a label without a
   similarity vector is scored as neutral. *)
C24_MoodReadsLastThree ==
    ServiceScored =>
        LET mood == matchScore.breakdown.mood
        IN  /\ mood \in 0..SCALE
            /\ (user1Entries = <<>> \/ user2Entries = <<>>) => mood = Tenths(2)
            /\ mood = moodSimilarities[recent(user1Entries), recent(user2Entries), cosineCall]
            /\ mood = relabelledMoods[user1Entries, user2Entries, cosineCall]

C24_Witness ==
    /\ ServiceScored
    /\ cosineCall = "distance"
    /\ Len(user1Entries) > 3
    /\ Len(user2Entries) = 1
    /\ \E k \in 1..Len(user1Entries) : ~HasVector(user1Entries[k].emotion)
    /\ matchScore.breakdown.mood # Tenths(2)
    /\ matchScore.breakdown.mood = moodSimilarities[recent(user1Entries), user2Entries, cosineCall]

(* C29: LocalDatabase.calculateMatchScore gives the location, interests and
   age sub-scores that FriendMatchingService gives for the same two
   profiles, defaults included, and weighs each of these factors alike. *)
C29_LocalScorerAgreesWithService ==
    (matchScore.kind = "score" /\ matchScore.by = "LocalDatabase") =>
        /\ matchScore.breakdown.location = locationMatches[user1.city, user2.city]
        /\ matchScore.breakdown.interests =
              calculateInterestOverlap(user1.interests, user2.interests)
        /\ matchScore.breakdown.age = calculateAgeCompatibility(user1.age, user2.age)
        /\ \A f \in {"location", "interests", "age"} :
              matchScore.weights[f] = serviceWeights[f]

\* the two profiles name the same city, have the same age and the same
\* non-empty set of interests, and the two histories end in the same moods
AlikeProfiles ==
    /\ user1.city # NoCity
    /\ trim(toLowerCase(user1.city)) = trim(toLowerCase(user2.city))
    /\ user1.age # NoAge
    /\ user1.age = user2.age
    /\ user1.interests # <<>>
    /\ lowerSet(user1.interests) = lowerSet(user2.interests)
    /\ lastThree(user1Entries) = lastThree(user2Entries)

(* C18: two profiles with the same city, the same age, identical non-empty
   interest sets and identical last-3 moods, whatever the lengths of their
   histories, score total >= 0.9 and are in the Excellent tier. *)
C18_AlikeProfilesAreExcellent ==
    (ServiceScored /\ AlikeProfiles) =>
        /\ matchScore.total >= 900
        /\ getCompatibilityLevel(matchScore.total) = "Excellent"

-----------------------------------------------------------------------------
(* Conversation routes: POST /start, POST /:id/respond, GET /:id and the   *)
(* delayed cleanup.  A handler is one action per run between two awaits.   *)

Users == {"demo-user", "user-2"}

\* the ids uuidv4 hands out, in the order POST /start creates them
ConversationIds == {1, 2}

totalQuestions == 5

\* what emotionAnalysis.analyzeText resolves to for a valid transcript
TurnResults == {[emotion |-> "sad", intensity |-> Num(80)]}

Response(status, id, complete, questionNumber) ==
    [kind |-> "response", status |-> status, id |-> id, complete |-> complete,
     questionNumber |-> questionNumber]

InFlightCount == BagCardinality(inflight)

InitConversations ==
    /\ OthersIdle("conversations")
    /\ conversations = <<>>
    /\ activeConversations = {}
    /\ inflight = EmptyBag
    /\ timers = <<>>
    /\ reportRuns = <<>>
    /\ reportedTurns = <<>>
    /\ requests = 0
    /\ lastResponse = NoOutcome

\* POST /start, lines 101-138
Start(userId) ==
    /\ Len(conversations) + 1 \in ConversationIds
    /\ conversations' = Append(conversations,
            [userId |-> userId, qaHistory |-> <<>>, currentQuestionNumber |-> 1,
             status |-> "active"])
    /\ activeConversations' = activeConversations \cup {Len(conversations) + 1}
    /\ timers' = Append(timers, 0)
    /\ reportRuns' = Append(reportRuns, 0)
    /\ reportedTurns' = Append(reportedTurns, 0)
    /\ lastResponse' = Response(200, Len(conversations) + 1, FALSE, 1)
    /\ UNCHANGED <<inflight, requests>>
    /\ UNCHANGED notConvVars

\* POST /:id/respond, lines 151-157: the Map has no such id
RespondNotFound(id) ==
    /\ requests < MaxRequests
    /\ id \notin activeConversations
    /\ requests' = requests + 1
    /\ lastResponse' = Response(404, id, FALSE, 0)
    /\ UNCHANGED <<conversations, activeConversations, inflight, timers, reportRuns, reportedTurns>>
    /\ UNCHANGED notConvVars

\* lines 159-163: another user's conversation
RespondUnauthorized(id, userId) ==
    /\ requests < MaxRequests
    /\ id \in activeConversations
    /\ conversations[id].userId # userId
    /\ requests' = requests + 1
    /\ lastResponse' = Response(403, id, FALSE, 0)
    /\ UNCHANGED <<conversations, activeConversations, inflight, timers, reportRuns, reportedTurns>>
    /\ UNCHANGED notConvVars

\* lines 165-167: the handler suspends at "await emotionAnalysis.analyzeText"
RespondBegins(id, userId, transcriptValid) ==
    /\ requests < MaxRequests
    /\ InFlightCount < MaxInFlight
    /\ id \in activeConversations
    /\ conversations[id].userId = userId
    /\ requests' = requests + 1
    /\ inflight' = inflight (+) SetToBag({[id |-> id, at |-> "analyzeText", valid |-> transcriptValid]})
    /\ UNCHANGED <<conversations, activeConversations, timers, reportRuns, reportedTurns, lastResponse>>
    /\ UNCHANGED notConvVars

Resume(r, next) == (inflight (-) SetToBag({r})) (+) SetToBag({[r EXCEPT !.at = next]})

Finish(r) == inflight (-) SetToBag({r})

\* analyzeText rejects the transcript: catch of line 271, status 500
AnalysisThrows(r) ==
    /\ BagIn(r, inflight)
    /\ r.at = "analyzeText"
    /\ ~r.valid
    /\ inflight' = Finish(r)
    /\ lastResponse' = Response(500, r.id, FALSE, 0)
    /\ UNCHANGED <<conversations, activeConversations, timers, reportRuns, reportedTurns, requests>>
    /\ UNCHANGED notConvVars

\* the turn stored without the increment of line 183
pushTurnWithoutIncrement(c, emotionResult) ==
    [c EXCEPT
        !.qaHistory = Append(@, [questionNumber |-> c.currentQuestionNumber,
                                 emotion        |-> emotionResult.emotion,
                                 intensity      |-> emotionResult.intensity])]

\* the stored conversation after lines 170-189
pushTurn(c, emotionResult) ==
    [c EXCEPT
        !.qaHistory = Append(@, [questionNumber |-> c.currentQuestionNumber,
                                 emotion        |-> emotionResult.emotion,
                                 intensity      |-> emotionResult.intensity]),
        !.currentQuestionNumber = @ + 1,
        !.status = IF c.currentQuestionNumber + 1 > totalQuestions THEN "complete" ELSE @]

\* lines 167-192 / 246-250: the analysis resolves, the turn is stored, and the
\* handler suspends again at getUserLocation or at generateAIFollowUp
AnalysisReturns(r, emotionResult) ==
    /\ BagIn(r, inflight)
    /\ r.at = "analyzeText"
    /\ r.valid
    /\ conversations' = [conversations EXCEPT ![r.id] = pushTurn(@, emotionResult)]
    /\ inflight' = Resume(r, IF conversations'[r.id].currentQuestionNumber > totalQuestions
                             THEN "getUserLocation" ELSE "generateAIFollowUp")
    /\ UNCHANGED <<activeConversations, timers, reportRuns, reportedTurns, requests, lastResponse>>
    /\ UNCHANGED notConvVars

\* lines 192-208: the location resolves (getUserLocation never rejects), the
\* summary is taken and generateSessionCompletion runs up to its own await of
\* suggestPlaces: score and dominant emotion are computed from the history as
\* it is now
LocationReturns(r) ==
    /\ BagIn(r, inflight)
    /\ r.at = "getUserLocation"
    /\ reportRuns' = [reportRuns EXCEPT ![r.id] = @ + 1]
    /\ reportedTurns' = [reportedTurns EXCEPT ![r.id] = Len(conversations[r.id].qaHistory)]
    /\ inflight' = Resume(r, "suggestPlaces")
    /\ UNCHANGED <<conversations, activeConversations, timers, requests, lastResponse>>
    /\ UNCHANGED notConvVars

\* lines 195-238, 270-276: conversationFlow.summarizeConversation (a module
\* that is not among the sources) or a later statement of the completion
\* branch throws; the catch answers 500 and line 240 is never reached, so no
\* timer is set
ReportThrows(r) ==
    /\ BagIn(r, inflight)
    /\ r.at = "getUserLocation"
    /\ inflight' = Finish(r)
    /\ lastResponse' = Response(500, r.id, FALSE, 0)
    /\ UNCHANGED <<conversations, activeConversations, timers, reportRuns, reportedTurns, requests>>
    /\ UNCHANGED notConvVars

\* lines 210-242: the report resolves (suggestPlaces falls back on failure),
\* the response is sent and the cleanup timer is set
ReportReturns(r) ==
    /\ BagIn(r, inflight)
    /\ r.at = "suggestPlaces"
    /\ inflight' = Finish(r)
    /\ timers' = [timers EXCEPT ![r.id] = @ + 1]
    /\ lastResponse' = Response(200, r.id, TRUE, 0)
    /\ UNCHANGED <<conversations, activeConversations, reportRuns, reportedTurns, requests>>
    /\ UNCHANGED notConvVars

\* lines 250-268: the follow-up question resolves and the response carries the
\* question number the conversation has by now
FollowUpReturns(r) ==
    /\ BagIn(r, inflight)
    /\ r.at = "generateAIFollowUp"
    /\ inflight' = Finish(r)
    /\ lastResponse' = Response(200, r.id, FALSE, conversations[r.id].currentQuestionNumber)
    /\ UNCHANGED <<conversations, activeConversations, timers, reportRuns, reportedTurns, requests>>
    /\ UNCHANGED notConvVars

\* the timer callback emptying the whole Map instead of deleting one key
CleanupClearsMap(id) ==
    /\ id \in DOMAIN timers
    /\ timers[id] > 0
    /\ timers' = [timers EXCEPT ![id] = @ - 1]
    /\ activeConversations' = {}
    /\ UNCHANGED <<conversations, inflight, reportRuns, reportedTurns, requests, lastResponse>>
    /\ UNCHANGED notConvVars

\* lines 240-242: the timer fires
Cleanup(id) ==
    /\ id \in DOMAIN timers
    /\ timers[id] > 0
    /\ timers' = [timers EXCEPT ![id] = @ - 1]
    /\ activeConversations' = activeConversations \ {id}
    /\ UNCHANGED <<conversations, inflight, reportRuns, reportedTurns, requests, lastResponse>>
    /\ UNCHANGED notConvVars

\* GET /:id without the comparison of lines 298-302
GetWithoutOwnerCheck(id, userId) ==
    /\ lastResponse' =
          IF id \notin activeConversations THEN Response(404, id, FALSE, 0)
          ELSE Response(200, id, conversations[id].status = "complete",
                        conversations[id].currentQuestionNumber)
    /\ UNCHANGED <<conversations, activeConversations, inflight, timers, reportRuns,
                   reportedTurns, requests>>
    /\ UNCHANGED notConvVars

\* GET /:id, lines 284-321
Get(id, userId) ==
    /\ lastResponse' =
          IF id \notin activeConversations THEN Response(404, id, FALSE, 0)
          ELSE IF conversations[id].userId # userId THEN Response(403, id, FALSE, 0)
          ELSE Response(200, id, conversations[id].status = "complete",
                        conversations[id].currentQuestionNumber)
    /\ UNCHANGED <<conversations, activeConversations, inflight, timers, reportRuns,
                   reportedTurns, requests>>
    /\ UNCHANGED notConvVars

NextConversations ==
    \/ \E u \in Users : Start(u)
    \/ \E id \in ConversationIds : RespondNotFound(id)
    \/ \E id \in ConversationIds, u \in Users : RespondUnauthorized(id, u)
    \/ \E id \in ConversationIds, u \in Users, v \in BOOLEAN : RespondBegins(id, u, v)
    \/ \E r \in BagToSet(inflight) : AnalysisThrows(r)
    \/ \E r \in BagToSet(inflight), e \in TurnResults : AnalysisReturns(r, e)
    \/ \E r \in BagToSet(inflight) : LocationReturns(r)
    \/ \E r \in BagToSet(inflight) : ReportThrows(r)
    \/ \E r \in BagToSet(inflight) : ReportReturns(r)
    \/ \E r \in BagToSet(inflight) : FollowUpReturns(r)
    \/ \E id \in ConversationIds : Cleanup(id)
    \/ \E id \in ConversationIds, u \in Users : Get(id, u)

SpecConversations == InitConversations /\ [][NextConversations]_vars

\* The completion branch of a handler always moves on: getUserLocation and
\* suggestPlaces wrap an axios call with a timeout in a try/catch, and the
\* event loop runs a timer that is due.  Which way the branch moves on
\* (report sent or exception caught) is not constrained.
FairConversations ==
    SpecConversations
      /\ WF_vars(\E r \in BagToSet(inflight) :
                    LocationReturns(r) \/ ReportThrows(r) \/ ReportReturns(r))
      /\ \A id \in ConversationIds : WF_vars(Cleanup(id))

(* C5: the session report of a conversation is computed at most once, from
   the history the session had when it completed (its five turns), and no
   turn is appended once the conversation is complete. *)
C5_OneReportPerConversation ==
    \A id \in DOMAIN conversations :
        /\ reportRuns[id] <= 1
        /\ Len(conversations[id].qaHistory) <= totalQuestions
        /\ reportRuns[id] >= 1 => reportedTurns[id] = totalQuestions

\* a step of a request or timer that addresses conversation a
StepFor(a) ==
    \/ Len(conversations) + 1 = a /\ \E u \in Users : Start(u)
    \/ \E u \in Users, v \in BOOLEAN : RespondBegins(a, u, v)
    \/ \E r \in BagToSet(inflight) :
          /\ r.id = a
          /\ \/ AnalysisThrows(r)
             \/ \E e \in TurnResults : AnalysisReturns(r, e)
             \/ LocationReturns(r)
             \/ ReportThrows(r)
             \/ ReportReturns(r)
             \/ FollowUpReturns(r)
    \/ Cleanup(a)

\* the stored state of conversation b is the same after the step
Untouched(b) ==
    /\ conversations'[b] = conversations[b]
    /\ b \in activeConversations' <=> b \in activeConversations

(* C19: a start, respond or cleanup step for one conversation leaves the
   stored state (history, question number, status, presence in the Map) of
   every other conversation unchanged, under any interleaving. *)
C19_OtherConversationsUntouched ==
    [][\A b \in DOMAIN conversations :
          ~Untouched(b) => \A a \in ConversationIds : a # b => ~StepFor(a)]_vars

C19_Witness ==
    /\ Len(conversations) = 2
    /\ conversations[1].status = "complete"
    /\ Len(conversations[1].qaHistory) = 5
    /\ 1 \notin activeConversations
    /\ 2 \in activeConversations
    /\ conversations[2].status = "active"
    /\ Len(conversations[2].qaHistory) = 1

(* C25: in every reachable state, respond requests interleaved at the
   emotion-analysis await included, each conversation's history length is
   currentQuestionNumber - 1 and its i-th turn carries questionNumber i. *)
C25_TurnsNumberedConsecutively ==
    \A id \in DOMAIN conversations :
        /\ Len(conversations[id].qaHistory) = conversations[id].currentQuestionNumber - 1
        /\ \A i \in 1..Len(conversations[id].qaHistory) :
              conversations[id].qaHistory[i].questionNumber = i

\* two respond handlers of one conversation were suspended at the analysis
\* together and both have stored their turn
C25_Witness ==
    /\ 1 \in DOMAIN conversations
    /\ Len(conversations[1].qaHistory) = 2
    /\ CopiesIn([id |-> 1, at |-> "generateAIFollowUp", valid |-> TRUE], inflight) = 2

(* C26: a conversation is complete exactly from the recording of its
   fifth response on; a response that answers complete = false carries the
   next question number (2 to 5) while the status is active, and the
   response to the fifth turn answers complete = true with the report of a
   completed conversation. *)
C26_CompleteAtFifthResponse ==
    [][/\ \A id \in DOMAIN conversations' :
             conversations'[id].status = "complete"
                 <=> Len(conversations'[id].qaHistory) >= totalQuestions
       /\ \A r \in BagToSet(inflight) :
             /\ FollowUpReturns(r) =>
                   /\ lastResponse'.complete = FALSE
                   /\ lastResponse'.questionNumber \in 2..totalQuestions
                   /\ lastResponse'.questionNumber = Len(conversations[r.id].qaHistory) + 1
                   /\ conversations[r.id].status = "active"
             /\ ReportReturns(r) =>
                   /\ lastResponse'.complete = TRUE
                   /\ conversations[r.id].status = "complete"
                   /\ reportRuns[r.id] >= 1]_vars

(* C27: every conversation whose status becomes complete is eventually
   removed from the Map by the delayed cleanup, also when the report fails
   after the status change; a respond or get for an id that is not in the Map
   answers 404 and changes no stored state. *)
C27_CompletedIsEventuallyRemoved ==
    /\ \A id \in ConversationIds :
          (id \in DOMAIN conversations /\ conversations[id].status = "complete")
              ~> (id \notin activeConversations)
    /\ [][\A id \in ConversationIds :
            (id \notin activeConversations
               /\ (RespondNotFound(id) \/ \E u \in Users : Get(id, u)))
              => /\ lastResponse'.status = 404
                 /\ conversations' = conversations
                 /\ activeConversations' = activeConversations
                 /\ inflight' = inflight]_vars

\* a request for a stored conversation made under another user's id
ForeignRequest(id, u) ==
    /\ id \in activeConversations
    /\ conversations[id].userId # u
    /\ \/ Get(id, u)
       \/ RespondUnauthorized(id, u)
       \/ \E v \in BOOLEAN : RespondBegins(id, u, v)

(* C28: a respond or get request under a user id other than the
   conversation's userId is answered 403; the answer carries nothing of the
   conversation, and the conversation's history, question number and status
   are the same after the request, no handler having been started. *)
C28_ForeignRequestIsRefused ==
    [][\A id \in ConversationIds, u \in Users :
          ForeignRequest(id, u) =>
              /\ lastResponse' = Response(403, id, FALSE, 0)
              /\ conversations' = conversations
              /\ activeConversations' = activeConversations
              /\ inflight' = inflight
              /\ timers' = timers]_vars

C28_Witness ==
    /\ 1 \in activeConversations
    /\ conversations[1].status = "complete"
    /\ Len(conversations[1].qaHistory) = totalQuestions
    /\ lastResponse = Response(403, 1, FALSE, 0)

-----------------------------------------------------------------------------
(* Friend ranking: FriendMatchingService.findMatches                       *)

\* .slice(0, 10)
topMatches == 10

FriendCities == {Boston, Austin}

\* the k-th candidate of a list carries id k
FriendProfile(k, c) == [id |-> k, city |-> c, age |-> 25, interests |-> <<"hiking">>]

FriendLists ==
    UNION {{[k \in 1..n |-> FriendProfile(k, f[k])] : f \in [1..n -> FriendCities]} :
              n \in 0..MaxFriends}

\* the target is the first candidate of the list (id 1) or not in it (id 0)
Targets == {FriendProfile(t, Boston) : t \in {0, 1}}

\* targetUserEntries: the target has written nothing yet
NoEntries == <<>>

\* allUserEntries[friend.id] || []: candidates with an even id have one
\* entry, the others have no key in the object
allUserEntries(id) ==
    IF id % 2 = 0 THEN SubSeq(Timeline, MaxEntries, MaxEntries) ELSE <<>>

\* this.calculateMatchScore over the candidates in use, evaluated once for
\* each kind of candidate; the mood factor of an empty history does not
\* reach the imported cosine
candidateScores ==
    [c \in FriendCities, e \in {allUserEntries(1), allUserEntries(2)} |->
        calculateMatchScore(FriendProfile(0, Boston), FriendProfile(0, c), NoEntries, e,
                            "distance")]

\* the object pushed by lines 46-53
matchOf(target, friend) ==
    LET score == candidateScores[friend.city, allUserEntries(friend.id)]
    IN  [user          |-> friend,
         score         |-> score.total,
         compatibility |-> getCompatibilityLevel(score.total)]

\* one step of the stable sort with comparator b.score - a.score: m goes
\* behind every element whose score is not lower
insertByScore(sorted, m) ==
    LET k == Cardinality({i \in 1..Len(sorted) : sorted[i].score >= m.score})
    IN  SubSeq(sorted, 1, k) \o <<m>> \o SubSeq(sorted, k + 1, Len(sorted))

RECURSIVE sortByScore(_)
sortByScore(ms) ==
    IF ms = <<>> THEN <<>>
    ELSE insertByScore(sortByScore(SubSeq(ms, 1, Len(ms) - 1)), ms[Len(ms)])

\* matches after the loop of lines 40-54 over the candidates not skipped
scored(target, kept) == [i \in 1..Len(kept) |-> matchOf(target, kept[i])]

\* the loop without "if (friend.id === targetUser.id) continue"
findMatchesKeepsSelf(target, friends) ==
    LET sorted == sortByScore(scored(target, friends))
    IN  [kind |-> "matches", list |-> SubSeq(sorted, 1, Min(Len(sorted), topMatches))]

findMatches(target, friends) ==
    LET others == SelectSeq(friends, LAMBDA f : f.id # target.id)
        sorted == sortByScore(scored(target, others))
    IN  [kind |-> "matches", list |-> SubSeq(sorted, 1, Min(Len(sorted), topMatches))]

InitFind ==
    /\ OthersIdle("find")
    /\ targetUser \in Targets
    /\ potentialFriends \in FriendLists
    /\ matches = NoOutcome

CallFindMatches ==
    /\ matches = NoOutcome
    /\ matches' = findMatches(targetUser, potentialFriends)
    /\ UNCHANGED <<targetUser, potentialFriends>>
    /\ UNCHANGED notFindVars

NextFind == CallFindMatches

SpecFind == InitFind /\ [][NextFind]_vars

\* the candidates that are not in the returned list
LeftOut ==
    {k \in 1..Len(potentialFriends) :
        /\ potentialFriends[k].id # targetUser.id
        /\ \A i \in 1..Len(matches.list) : matches.list[i].user # potentialFriends[k]}

(* C30: findMatches never returns the target user, returns at most 10
   matches, in non-increasing order of score, and no candidate it leaves
   out has a score above the lowest score returned. *)
C30_TopTenWithoutSelf ==
    matches.kind = "matches" =>
        LET list == matches.list
        IN  /\ \A i \in 1..Len(list) : list[i].user.id # targetUser.id
            /\ Len(list) <= 10
            /\ \A i \in 1..Len(list) : \A j \in i..Len(list) : list[i].score >= list[j].score
            /\ \A k \in LeftOut :
                  /\ Len(list) = 10
                  /\ matchOf(targetUser, potentialFriends[k]).score <= list[Len(list)].score

C30_Witness ==
    /\ matches.kind = "matches"
    /\ targetUser.id = 1
    /\ Len(potentialFriends) = 12
    /\ Len(matches.list) = 10
    /\ matches.list[1].score > matches.list[10].score
    /\ \E k \in LeftOut :
          matchOf(targetUser, potentialFriends[k]).score < matches.list[10].score

=============================================================================
